---- MODULE Spec2Model ----
(***************************************************************************)
(* poly-iac-mcp: adapter registry and dispatch engine.                     *)
(*                                                                         *)
(* The repository holds two entry points and three adapters:               *)
(*   index.js               the JavaScript server: a list of adapters,     *)
(*                          tools collected with flatMap, dispatch by a    *)
(*                          linear search over the adapters;               *)
(*   adapters/terraform.js  the JavaScript Terraform/OpenTofu adapter;     *)
(*   main.js                the ReScript entry shim: connects every        *)
(*                          adapter, merges the tools into one dictionary  *)
(*                          and registers one callback per tool;           *)
(*   Terraform.res          the ReScript Terraform/OpenTofu adapter        *)
(*                          (kept in src/main.js, lines 97-327);           *)
(*   Pulumi.res             the ReScript Pulumi adapter.                   *)
(*                                                                         *)
(* JSON values are records [t, v]: t is the JSON type and v the text of    *)
(* the value, so that values of different types stay comparable.           *)
(***************************************************************************)
EXTENDS Integers, Sequences, FiniteSets, TLC

VARIABLES
    entry,              \* which entry script runs: "index" or "main"
    adapters,           \* the `adapters` array of the entry script
    pc,                 \* position of the entry script
    idx,                \* main.js: index of the adapter the startup loop is at
    binaryPath,         \* per adapter: the module variable binaryPath
    connected,          \* per adapter: the module variable connected
    connectedAdapters,  \* main.js: the connectedAdapters array
    allTools,           \* the merged tool table, in order
    log,                \* console.error lines "Failed to connect <name>"
    response            \* the response the server is writing to the transport

vars == <<entry, adapters, pc, idx, binaryPath, connected, connectedAdapters,
          allTools, log, response>>

-----------------------------------------------------------------------------
(* JSON values *)

JStr(s) == [t |-> "string", v |-> s]

JBool(b) == [t |-> "boolean", v |-> IF b THEN "true" ELSE "false"]

JNum(n) == [t |-> "number", v |-> ToString(n)]

JObj(s) == [t |-> "object", v |-> s]

\* a JavaScript binding that holds undefined
Undefined == [t |-> "undefined", v |-> "undefined"]

\* JavaScript truthiness, as `if (x)` tests it
Truthy(x) ==
    CASE x.t = "boolean" -> x.v = "true"
      [] x.t = "string" -> x.v # ""
      [] x.t = "number" -> x.v # "0"
      [] x.t = "object" -> TRUE
      [] OTHER -> FALSE

\* an option value: <<>> is None, <<x>> is Some(x)
None == <<>>

Some(x) == <<x>>

\* object fields, in the order the code writes them: a sequence of <<key, value>>
HasField(obj, k) == \E i \in 1..Len(obj) : obj[i][1] = k

Field(obj, k) == obj[CHOOSE i \in 1..Len(obj) : obj[i][1] = k][2]

-----------------------------------------------------------------------------
(* Process Runner: Deno.Command(binary, {args}).output() *)

\* what one invocation of an external binary can do: the spawn throws (binary
\* not found), or the process exits with a code, stdout and stderr
SpawnFailed ==
    [thrown |-> TRUE, code |-> 0 - 1, stdout |-> "", stderr |-> ""]

Exited(code, stdout, stderr) ==
    [thrown |-> FALSE, code |-> code, stdout |-> stdout, stderr |-> stderr]

ProcOutcomes ==
    { SpawnFailed,
      Exited(0, "[]", ""),
      Exited(0, "v1.0\n", ""),
      Exited(1, "", "no such stack") }

\* the message of the exception a failed spawn throws
SpawnMessage == "Failed to spawn"

\* one invocation of the Process Runner, and what the process did
Call(binary, args, out) == [binary |-> binary, args |-> args, out |-> out]

-----------------------------------------------------------------------------
(* What a handler does: it returns a value or throws, after building an     *)
(* argument vector (or not) and invoking the Process Runner (or not).       *)

ObjResult(fields) == [raw |-> "", fields |-> fields]

\* the value JSON.parseExn(stdout) returns
ParsedResult(text) == [raw |-> text, fields |-> <<>>]

Returned(result, cmdArgs, calls) ==
    [threw |-> FALSE, msg |-> "", result |-> result,
     cmdArgs |-> cmdArgs, calls |-> calls]

Threw(msg, cmdArgs, calls) ==
    [threw |-> TRUE, msg |-> msg, result |-> ObjResult(<<>>),
     cmdArgs |-> cmdArgs, calls |-> calls]

\* JSON.parseExn succeeds on JSON text only
Parseable(text) == text \in {"[]", "{}"}

-----------------------------------------------------------------------------
(* ReScript argument decoding (Terraform.res, Pulumi.res) *)

\* args->Dict.get(k)->Option.flatMap(JSON.Decode.string)
\* and `switch Dict.get(args, k) { | Some(JSON.String(s)) => Some(s) | _ => None }`
getString(args, k) ==
    IF k \in DOMAIN args /\ args[k].t = "string" THEN Some(args[k].v) ELSE None

\* args->Dict.get(k)->Option.flatMap(JSON.Decode.bool)
getBool(args, k) ==
    IF k \in DOMAIN args /\ args[k].t = "boolean"
    THEN Some(args[k].v = "true") ELSE None

getOr(opt, default) == IF opt = None THEN default ELSE opt[1]

\* out->Option.forEach(o => cmdArgs->Array.push(f(o)))
pushSome(opt, prefix) ==
    IF opt = None THEN <<>> ELSE <<JStr(prefix \o opt[1])>>

pushIf(cond, token) == IF cond THEN <<JStr(token)>> ELSE <<>>

-----------------------------------------------------------------------------
(* Terraform.res: the ReScript Terraform/OpenTofu adapter *)

NotConnectedMessage == "Not connected to Terraform/OpenTofu"

runCommandThrowsOnFailure(bp, args, out) ==
    IF bp = None
    THEN Returned(ObjResult(<< <<"success", JBool(FALSE)>>,
                               <<"error", JStr(NotConnectedMessage)>> >>),
                  Some(args), <<>>)
    ELSE IF out.thrown \/ out.code # 0
    THEN Threw(out.stderr, Some(args), <<Call(bp[1], args, out)>>)
    ELSE Returned(ObjResult(<< <<"success", JBool(TRUE)>>,
                               <<"output", JStr(out.stdout)>>,
                               <<"error", JStr(out.stderr)>>,
                               <<"code", JNum(out.code)>> >>),
                  Some(args), <<Call(bp[1], args, out)>>)

\* let runCommand = async (args) => switch binaryPath.contents { ... }
runCommand(bp, args, out) ==
    IF bp = None
    THEN Returned(ObjResult(<< <<"success", JBool(FALSE)>>,
                               <<"error", JStr(NotConnectedMessage)>> >>),
                  Some(args), <<>>)
    ELSE IF out.thrown
    THEN Threw(SpawnMessage, Some(args), <<Call(bp[1], args, out)>>)
    ELSE Returned(ObjResult(<< <<"success", JBool(out.code = 0)>>,
                               <<"output", JStr(out.stdout)>>,
                               <<"error", JStr(out.stderr)>>,
                               <<"code", JNum(out.code)>> >>),
                  Some(args), <<Call(bp[1], args, out)>>)

initHandler(args) ==
    LET path == getOr(getString(args, "path"), ".")
        backend == getOr(getBool(args, "backend"), TRUE)
        upgrade == getOr(getBool(args, "upgrade"), FALSE)
    IN  <<JStr("init")>> \o pushIf(~backend, "-backend=false")
            \o pushIf(upgrade, "-upgrade") \o <<JStr(path)>>

planHandler(args) ==
    LET path == getOr(getString(args, "path"), ".")
        out == getString(args, "out")
    IN  <<JStr("plan")>> \o pushSome(out, "-out=") \o <<JStr(path)>>

applyHandlerAlwaysApproves(args) ==
    LET path == getOr(getString(args, "path"), ".")
    IN  <<JStr("apply"), JStr("-auto-approve"), JStr(path)>>

applyHandler(args) ==
    LET path == getOr(getString(args, "path"), ".")
        autoApprove == getOr(getBool(args, "autoApprove"), FALSE)
    IN  <<JStr("apply")>> \o pushIf(autoApprove, "-auto-approve")
            \o <<JStr(path)>>

destroyHandler(args) ==
    LET path == getOr(getString(args, "path"), ".")
        autoApprove == getOr(getBool(args, "autoApprove"), FALSE)
    IN  <<JStr("destroy")>> \o pushIf(autoApprove, "-auto-approve")
            \o <<JStr(path)>>

outputHandler(args) ==
    LET outputName == getString(args, "name")
        json == getOr(getBool(args, "json"), TRUE)
    IN  <<JStr("output")>> \o pushIf(json, "-json") \o pushSome(outputName, "")

stateListHandler(args) == <<JStr("state"), JStr("list")>>

validateHandler(args) ==
    LET path == getOr(getString(args, "path"), ".")
    IN  <<JStr("validate"), JStr(path)>>

fmtHandler(args) ==
    LET path == getOr(getString(args, "path"), ".")
        check == getOr(getBool(args, "check"), FALSE)
    IN  <<JStr("fmt")>> \o pushIf(check, "-check") \o <<JStr(path)>>

versionHandler(args) == <<JStr("version")>>

\* let tools: dict<toolDef>: the tool names in insertion order, their
\* parameters, and the argument vector each handler hands to runCommand
TerraformResTools ==
    <<"terraform_init", "terraform_plan", "terraform_apply",
      "terraform_destroy", "terraform_output", "terraform_state_list",
      "terraform_validate", "terraform_fmt", "terraform_version">>

TerraformResParams(tool) ==
    CASE tool = "terraform_init" -> {"path", "backend", "upgrade"}
      [] tool = "terraform_plan" -> {"path", "out"}
      [] tool = "terraform_apply" -> {"path", "autoApprove"}
      [] tool = "terraform_destroy" -> {"path", "autoApprove"}
      [] tool = "terraform_output" -> {"name", "json"}
      [] tool = "terraform_validate" -> {"path"}
      [] tool = "terraform_fmt" -> {"path", "check"}
      [] OTHER -> {}

TerraformResCmdArgs(tool, args) ==
    CASE tool = "terraform_init" -> initHandler(args)
      [] tool = "terraform_plan" -> planHandler(args)
      [] tool = "terraform_apply" -> applyHandler(args)
      [] tool = "terraform_destroy" -> destroyHandler(args)
      [] tool = "terraform_output" -> outputHandler(args)
      [] tool = "terraform_state_list" -> stateListHandler(args)
      [] tool = "terraform_validate" -> validateHandler(args)
      [] tool = "terraform_fmt" -> fmtHandler(args)
      [] OTHER -> versionHandler(args)

\* a handler of Terraform.res run to its end: `await runCommand(cmdArgs)`
TerraformResHandler(tool, args, bp, out) ==
    runCommand(bp, TerraformResCmdArgs(tool, args), out)

-----------------------------------------------------------------------------
(* adapters/terraform.js: the JavaScript Terraform/OpenTofu adapter *)

\* a destructured parameter `{ k }`: undefined when the caller left it out
Param(args, k) == IF k \in DOMAIN args THEN args[k] ELSE Undefined

\* a destructured parameter with a default, `{ k = default }`
ParamOr(args, k, default) == IF k \in DOMAIN args THEN args[k] ELSE default

\* `if (x) args.push(token)`
pushIfTruthy(x, token) == IF Truthy(x) THEN <<JStr(token)>> ELSE <<>>

\* Object.entries(vars) of an object whose one entry is written key=value in
\* its text; a boolean or a number has no entries
Entries(x) == IF x.t = "object" THEN <<x.v>> ELSE <<>>

\* async function runCommand(args): throws when binaryPath is null
runCommandJs(bp, args, out) ==
    IF bp = None
    THEN Threw(NotConnectedMessage, Some(args), <<>>)
    ELSE IF out.thrown
    THEN Threw(SpawnMessage, Some(args), <<Call(bp[1], args, out)>>)
    ELSE Returned(ObjResult(<< <<"success", JBool(out.code = 0)>>,
                               <<"output", JStr(out.stdout)>>,
                               <<"error", JStr(out.stderr)>>,
                               <<"code", JNum(out.code)>> >>),
                  Some(args), <<Call(bp[1], args, out)>>)

terraform_init(args) ==
    LET path == Param(args, "path")
        backend == ParamOr(args, "backend", JBool(TRUE))
        upgrade == ParamOr(args, "upgrade", JBool(FALSE))
    IN  <<JStr("init")>> \o pushIf(~Truthy(backend), "-backend=false")
            \o pushIfTruthy(upgrade, "-upgrade") \o <<path>>

terraform_plan(args) ==
    LET path == Param(args, "path")
        out == Param(args, "out")
        varsArg == Param(args, "vars")
        varTokens == IF Truthy(varsArg)
                     THEN [i \in 1..Len(Entries(varsArg)) |->
                              JStr("-var=" \o Entries(varsArg)[i])]
                     ELSE <<>>
    IN  <<JStr("plan")>>
            \o (IF Truthy(out) THEN <<JStr("-out=" \o out.v)>> ELSE <<>>)
            \o varTokens \o <<path>>

terraform_apply(args) ==
    LET path == Param(args, "path")
        autoApprove == ParamOr(args, "autoApprove", JBool(FALSE))
    IN  <<JStr("apply")>> \o pushIfTruthy(autoApprove, "-auto-approve")
            \o <<path>>

terraform_destroy(args) ==
    LET path == Param(args, "path")
        autoApprove == ParamOr(args, "autoApprove", JBool(FALSE))
    IN  <<JStr("destroy")>> \o pushIfTruthy(autoApprove, "-auto-approve")
            \o <<path>>

terraform_output(args) ==
    LET name == Param(args, "name")
        json == ParamOr(args, "json", JBool(TRUE))
    IN  <<JStr("output")>> \o pushIfTruthy(json, "-json")
            \o (IF Truthy(name) THEN <<name>> ELSE <<>>)

terraform_state_list(args) == <<JStr("state"), JStr("list")>>

terraform_validate(args) == <<JStr("validate"), Param(args, "path")>>

terraform_fmt(args) ==
    LET path == Param(args, "path")
        check == ParamOr(args, "check", JBool(FALSE))
    IN  <<JStr("fmt")>> \o pushIfTruthy(check, "-check") \o <<path>>

\* const tools = [...]: names in array order, inputSchema.properties,
\* inputSchema.required, and the handlers
TerraformJsTools ==
    <<"terraform_init", "terraform_plan", "terraform_apply",
      "terraform_destroy", "terraform_output", "terraform_state_list",
      "terraform_validate", "terraform_fmt">>

TerraformJsParams(tool) ==
    CASE tool = "terraform_init" -> {"path", "backend", "upgrade"}
      [] tool = "terraform_plan" -> {"path", "out", "vars"}
      [] tool = "terraform_apply" -> {"path", "autoApprove"}
      [] tool = "terraform_destroy" -> {"path", "autoApprove"}
      [] tool = "terraform_output" -> {"path", "name", "json"}
      [] tool = "terraform_fmt" -> {"path", "check"}
      [] OTHER -> {"path"}

TerraformJsRequired(tool) == {"path"}

TerraformJsCmdArgs(tool, args) ==
    CASE tool = "terraform_init" -> terraform_init(args)
      [] tool = "terraform_plan" -> terraform_plan(args)
      [] tool = "terraform_apply" -> terraform_apply(args)
      [] tool = "terraform_destroy" -> terraform_destroy(args)
      [] tool = "terraform_output" -> terraform_output(args)
      [] tool = "terraform_state_list" -> terraform_state_list(args)
      [] tool = "terraform_validate" -> terraform_validate(args)
      [] OTHER -> terraform_fmt(args)

\* a handler of terraform.js run to its end: `return await runCommand(args)`
TerraformJsHandler(tool, args, bp, out) ==
    runCommandJs(bp, TerraformJsCmdArgs(tool, args), out)

-----------------------------------------------------------------------------
(* Pulumi.res: the ReScript Pulumi adapter *)

\* let runPulumiCmd = async (args) => await Deno.Command.run("pulumi", args):
\* the invocation, whatever `connected` holds
runPulumiCmd(args, out) == Call("pulumi", args, out)

\* the tail of a handler after `await runPulumiCmd(cmdArgs)`: the spawn's
\* exception leaves the handler, otherwise the handler returns `result`
afterPulumiCmd(cmdArgs, out, result) ==
    IF out.thrown
    THEN Threw(SpawnMessage, Some(cmdArgs), <<runPulumiCmd(cmdArgs, out)>>)
    ELSE Returned(result, Some(cmdArgs), <<runPulumiCmd(cmdArgs, out)>>)

\* {success: code == 0, output: stdout, error: stderr}
successOutputError(out) ==
    ObjResult(<< <<"success", JBool(out.code = 0)>>,
                 <<"output", JStr(out.stdout)>>,
                 <<"error", JStr(out.stderr)>> >>)

\* {success: false, error: stderr}
failureError(out) ==
    ObjResult(<< <<"success", JBool(FALSE)>>, <<"error", JStr(out.stderr)>> >>)

\* String.trim(stdout), on the outputs ProcOutcomes draws
trim(text) == IF text = "v1.0\n" THEN "v1.0" ELSE text

previewHandler(args, out) ==
    LET stack == getString(args, "stack")
        path == getOr(getString(args, "path"), ".")
        cmdArgs == <<JStr("preview"), JStr("--cwd"), JStr(path), JStr("--json")>>
                       \o pushSome(stack, "--stack=")
    IN  afterPulumiCmd(cmdArgs, out, successOutputError(out))

upHandler(args, out) ==
    LET stack == getString(args, "stack")
        path == getOr(getString(args, "path"), ".")
        yes == getOr(getBool(args, "yes"), FALSE)
        cmdArgs == <<JStr("up"), JStr("--cwd"), JStr(path), JStr("--json")>>
                       \o pushSome(stack, "--stack=") \o pushIf(yes, "--yes")
    IN  afterPulumiCmd(cmdArgs, out, successOutputError(out))

pulumiDestroyHandler(args, out) ==
    LET stack == getString(args, "stack")
        path == getOr(getString(args, "path"), ".")
        yes == getOr(getBool(args, "yes"), FALSE)
        cmdArgs == <<JStr("destroy"), JStr("--cwd"), JStr(path), JStr("--json")>>
                       \o pushSome(stack, "--stack=") \o pushIf(yes, "--yes")
    IN  afterPulumiCmd(cmdArgs, out, successOutputError(out))

stackListHandler(args, out) ==
    LET path == getOr(getString(args, "path"), ".")
        cmdArgs == <<JStr("stack"), JStr("ls"), JStr("--cwd"), JStr(path),
                     JStr("--json")>>
        result == IF out.code = 0
                  THEN IF Parseable(out.stdout)
                       THEN ParsedResult(out.stdout)
                       ELSE ObjResult(<< <<"stacks", JStr(out.stdout)>> >>)
                  ELSE failureError(out)
    IN  afterPulumiCmd(cmdArgs, out, result)

stackSelectHandler(args, out) ==
    LET stack == getString(args, "stack")
        path == getOr(getString(args, "path"), ".")
        cmdArgs == <<JStr("stack"), JStr("select"), JStr(stack[1]),
                     JStr("--cwd"), JStr(path)>>
    IN  IF stack = None
        THEN Threw("stack parameter is required", None, <<>>)
        ELSE afterPulumiCmd(cmdArgs, out,
                 ObjResult(<< <<"success", JBool(out.code = 0)>>,
                              <<"stack", JStr(stack[1])>>,
                              <<"error", JStr(out.stderr)>> >>))

stackInitHandler(args, out) ==
    LET stack == getString(args, "stack")
        path == getOr(getString(args, "path"), ".")
        cmdArgs == <<JStr("stack"), JStr("init"), JStr(stack[1]),
                     JStr("--cwd"), JStr(path)>>
    IN  IF stack = None
        THEN Threw("stack parameter is required", None, <<>>)
        ELSE afterPulumiCmd(cmdArgs, out,
                 ObjResult(<< <<"success", JBool(out.code = 0)>>,
                              <<"stack", JStr(stack[1])>>,
                              <<"output", JStr(out.stdout)>>,
                              <<"error", JStr(out.stderr)>> >>))

stackOutputHandler(args, out) ==
    LET stack == getString(args, "stack")
        path == getOr(getString(args, "path"), ".")
        cmdArgs == <<JStr("stack"), JStr("output"), JStr("--cwd"), JStr(path),
                     JStr("--json")>> \o pushSome(stack, "--stack=")
        result == IF out.code = 0
                  THEN IF Parseable(out.stdout)
                       THEN ParsedResult(out.stdout)
                       ELSE ObjResult(<< <<"outputs", JStr(out.stdout)>> >>)
                  ELSE failureError(out)
    IN  afterPulumiCmd(cmdArgs, out, result)

refreshHandler(args, out) ==
    LET stack == getString(args, "stack")
        path == getOr(getString(args, "path"), ".")
        yes == getOr(getBool(args, "yes"), FALSE)
        cmdArgs == <<JStr("refresh"), JStr("--cwd"), JStr(path), JStr("--json")>>
                       \o pushSome(stack, "--stack=") \o pushIf(yes, "--yes")
    IN  afterPulumiCmd(cmdArgs, out, successOutputError(out))

configSetHandler(args, out) ==
    LET key == getString(args, "key")
        value == getString(args, "value")
        secret == getOr(getBool(args, "secret"), FALSE)
        path == getOr(getString(args, "path"), ".")
        cmdArgs == <<JStr("config"), JStr("set"), JStr(key[1]), JStr(value[1]),
                     JStr("--cwd"), JStr(path)>> \o pushIf(secret, "--secret")
    IN  IF key = None
        THEN Threw("key parameter is required", None, <<>>)
        ELSE IF value = None
        THEN Threw("value parameter is required", None, <<>>)
        ELSE afterPulumiCmd(cmdArgs, out,
                 ObjResult(<< <<"success", JBool(out.code = 0)>>,
                              <<"key", JStr(key[1])>>,
                              <<"error", JStr(out.stderr)>> >>))

\* a handler that reads a missing key as the empty string
configGetHandlerEmptyKey(args, out) ==
    LET key == getOr(getString(args, "key"), "")
        path == getOr(getString(args, "path"), ".")
        cmdArgs == <<JStr("config"), JStr("get"), JStr(key),
                     JStr("--cwd"), JStr(path)>>
    IN  afterPulumiCmd(cmdArgs, out,
            ObjResult(<< <<"success", JBool(out.code = 0)>>,
                         <<"key", JStr(key)>>,
                         <<"value", JStr(trim(out.stdout))>>,
                         <<"error", JStr(out.stderr)>> >>))

configGetHandler(args, out) ==
    LET key == getString(args, "key")
        path == getOr(getString(args, "path"), ".")
        cmdArgs == <<JStr("config"), JStr("get"), JStr(key[1]),
                     JStr("--cwd"), JStr(path)>>
    IN  IF key = None
        THEN Threw("key parameter is required", None, <<>>)
        ELSE afterPulumiCmd(cmdArgs, out,
                 ObjResult(<< <<"success", JBool(out.code = 0)>>,
                              <<"key", JStr(key[1])>>,
                              <<"value", JStr(trim(out.stdout))>>,
                              <<"error", JStr(out.stderr)>> >>))

pulumiVersionHandler(args, out) ==
    afterPulumiCmd(<<JStr("version")>>, out,
        ObjResult(<< <<"success", JBool(out.code = 0)>>,
                     <<"version", JStr(trim(out.stdout))>>,
                     <<"error", JStr(out.stderr)>> >>))

\* let tools: dict<toolDef> = Dict.fromArray([...])
PulumiTools ==
    <<"pulumi_preview", "pulumi_up", "pulumi_destroy", "pulumi_stack_list",
      "pulumi_stack_select", "pulumi_stack_init", "pulumi_stack_output",
      "pulumi_refresh", "pulumi_config_set", "pulumi_config_get",
      "pulumi_version">>

PulumiParams(tool) ==
    CASE tool \in {"pulumi_preview", "pulumi_stack_select", "pulumi_stack_init",
                   "pulumi_stack_output"} -> {"path", "stack"}
      [] tool \in {"pulumi_up", "pulumi_destroy", "pulumi_refresh"} ->
             {"path", "stack", "yes"}
      [] tool = "pulumi_stack_list" -> {"path"}
      [] tool = "pulumi_config_set" -> {"key", "value", "secret", "path"}
      [] tool = "pulumi_config_get" -> {"key", "path"}
      [] OTHER -> {}

PulumiHandler(tool, args, out) ==
    CASE tool = "pulumi_preview" -> previewHandler(args, out)
      [] tool = "pulumi_up" -> upHandler(args, out)
      [] tool = "pulumi_destroy" -> pulumiDestroyHandler(args, out)
      [] tool = "pulumi_stack_list" -> stackListHandler(args, out)
      [] tool = "pulumi_stack_select" -> stackSelectHandler(args, out)
      [] tool = "pulumi_stack_init" -> stackInitHandler(args, out)
      [] tool = "pulumi_stack_output" -> stackOutputHandler(args, out)
      [] tool = "pulumi_refresh" -> refreshHandler(args, out)
      [] tool = "pulumi_config_set" -> configSetHandler(args, out)
      [] tool = "pulumi_config_get" -> configGetHandler(args, out)
      [] OTHER -> pulumiVersionHandler(args, out)

-----------------------------------------------------------------------------
(* Adapter lifecycle: detectBinary, connect, disconnect, isConnected *)

\* let binaries = ["tofu", "terraform"]
Binaries == <<"tofu", "terraform">>

\* what `<binary> version` does when probed: it exits 0 ("ok"), exits non-zero
\* ("fail"), or the spawn throws ("throw")
ProbeOutcomes == [{"tofu", "terraform"} -> {"ok", "fail", "throw"}]

\* terraform.js detectBinary: the for loop from candidate i on; `probed` are
\* the candidates whose `version` was run
RECURSIVE detectBinaryJsFrom(_, _, _)
detectBinaryJsFrom(i, probe, probed) ==
    IF i > Len(Binaries)
    THEN [binary |-> None, probed |-> probed]
    ELSE IF probe[Binaries[i]] = "ok"
    THEN [binary |-> Some(Binaries[i]), probed |-> Append(probed, Binaries[i])]
    ELSE detectBinaryJsFrom(i + 1, probe, Append(probed, Binaries[i]))

detectBinaryJs(probe) == detectBinaryJsFrom(1, probe, <<>>)

\* Terraform.res detectBinary: the loop visits every index and probes only
\* while result is None
RECURSIVE detectBinaryFrom(_, _, _, _)
detectBinaryFrom(i, probe, result, probed) ==
    IF i > Len(Binaries)
    THEN [binary |-> result, probed |-> probed]
    ELSE IF result = None
    THEN detectBinaryFrom(i + 1, probe,
             IF probe[Binaries[i]] = "ok" THEN Some(Binaries[i]) ELSE result,
             Append(probed, Binaries[i]))
    ELSE detectBinaryFrom(i + 1, probe, result, probed)

\* the loop without the Option.isNone guard: every candidate is probed and
\* the last one that exits 0 is kept
detectBinaryUnguarded(probe) ==
    [binary |-> IF probe["terraform"] = "ok" THEN Some("terraform")
                ELSE IF probe["tofu"] = "ok" THEN Some("tofu")
                ELSE None,
     probed |-> Binaries]

detectBinary(probe) == detectBinaryFrom(1, probe, None, <<>>)

\* the outcome of a connect() or disconnect(): the adapter's new state,
\* whether the call threw, and the message of the exception or of the
\* returned {success: false, error} status; a call that neither throws nor
\* returns such a status has the empty message
Connection(bp, conn, threw, msg) ==
    [binaryPath |-> bp, connected |-> conn, threw |-> threw, msg |-> msg]

\* terraform.js connect: binaryPath is assigned the probe's result, connected
\* is set on success only, and the call returns a status object either way
connectJs(bp, conn, probe) ==
    LET found == detectBinaryJs(probe).binary
    IN  IF found # None
        THEN Connection(found, TRUE, FALSE, "")
        ELSE Connection(found, conn, FALSE,
                        "No Terraform/OpenTofu binary found")

\* Terraform.res connect: records the binary on success, raises otherwise
connectReturnsOnFailure(bp, conn, probe) ==
    LET found == detectBinary(probe).binary
    IN  IF found # None
        THEN Connection(found, TRUE, FALSE, "")
        ELSE Connection(bp, conn, FALSE, "")

connect(bp, conn, probe) ==
    LET found == detectBinary(probe).binary
    IN  IF found # None
        THEN Connection(found, TRUE, FALSE, "")
        ELSE Connection(bp, conn, TRUE, "No Terraform/OpenTofu binary found")

\* Pulumi.res connect: `pulumi version` must exit 0; a spawn exception
\* leaves connect as it is thrown
pulumiConnect(bp, conn, out) ==
    IF out.thrown
    THEN Connection(bp, conn, TRUE, SpawnMessage)
    ELSE IF out.code = 0
    THEN Connection(bp, TRUE, FALSE, "")
    ELSE Connection(bp, conn, TRUE, "Pulumi CLI not found")

\* disconnect of terraform.js and Terraform.res
disconnect(bp, conn) == Connection(None, FALSE, FALSE, "")

\* disconnect of Pulumi.res
pulumiDisconnect(bp, conn) == Connection(bp, FALSE, FALSE, "")

-----------------------------------------------------------------------------
(* The adapters an entry script can be configured with *)

\* main.js: import * as Terraform, import * as Pulumi
MainAdapters == {"Terraform", "Pulumi"}

\* index.js: the adapters its import list names; both are instances of the
\* one JavaScript adapter the repository holds, adapters/terraform.js
IndexAdapters == {"terraformAdapter", "opentofuAdapter"}

AdapterIds == MainAdapters \cup IndexAdapters

\* the longest `adapters` array drawn
MaxAdapters == 2

\* the arrays of distinct adapters of S, up to MaxAdapters long
Configs(S) ==
    { c \in UNION { [1..n -> S] : n \in 0..MaxAdapters } :
        \A i, j \in 1..Len(c) : c[i] = c[j] => i = j }

\* adapter.name
AdapterName(a) ==
    CASE a = "Terraform" -> "terraform"
      [] a = "Pulumi" -> "pulumi"
      [] a = "terraformAdapter" -> "terraform"
      [] OTHER -> "opentofu"

\* adapter.tools, as the names in order
AdapterTools(a) ==
    CASE a = "Terraform" -> TerraformResTools
      [] a = "Pulumi" -> PulumiTools
      [] OTHER -> TerraformJsTools

\* the declared parameters of a tool of adapter a
ToolParams(a, tool) ==
    CASE a = "Terraform" -> TerraformResParams(tool)
      [] a = "Pulumi" -> PulumiParams(tool)
      [] OTHER -> TerraformJsParams(tool)

\* tool.handler(args) of adapter a, run to its end
Handler(a, tool, args, bp, out) ==
    CASE a = "Terraform" -> TerraformResHandler(tool, args, bp, out)
      [] a = "Pulumi" -> PulumiHandler(tool, args, out)
      [] OTHER -> TerraformJsHandler(tool, args, bp, out)

SeqToSet(s) == { s[i] : i \in 1..Len(s) }

-----------------------------------------------------------------------------
(* The merged tool table *)

Tool(name, owner) == [name |-> name, owner |-> owner]

\* the tools of adapter a, as table entries in the adapter's order
ToolsOf(a) == [i \in 1..Len(AdapterTools(a)) |-> Tool(AdapterTools(a)[i], a)]

\* index.js: const allTools = adapters.flatMap((adapter) => adapter.tools || [])
RECURSIVE flatMapTools(_)
flatMapTools(as) ==
    IF as = <<>> THEN <<>> ELSE ToolsOf(Head(as)) \o flatMapTools(Tail(as))

\* main.js: allTools[name] = def, on an object that keeps insertion order: a
\* name already present keeps its place and takes the new definition
setTool(table, tool) ==
    IF \E i \in 1..Len(table) : table[i].name = tool.name
    THEN [i \in 1..Len(table) |->
             IF table[i].name = tool.name THEN tool ELSE table[i]]
    ELSE Append(table, tool)

\* main.js: for (const [name, def] of Object.entries(tools)) allTools[name] = def
RECURSIVE setTools(_, _)
setTools(table, tools) ==
    IF tools = <<>> THEN table
    ELSE setTools(setTool(table, Head(tools)), Tail(tools))

\* index.js: the first adapter of the array that has a tool of that name
\* (for (const adapter of adapters) adapter.tools?.find(...)), or None
findTool(as, name) ==
    LET hits == { i \in 1..Len(as) : name \in SeqToSet(AdapterTools(as[i])) }
    IN  IF hits = {} THEN None
        ELSE Some(as[CHOOSE i \in hits : \A j \in hits : i <= j])

-----------------------------------------------------------------------------
(* The response envelope *)

\* JSON.stringify(result, null, 2): the text is the JSON of the value
JsonText(result) == [fmt |-> "json", plain |-> "", value |-> result]

PlainText(s) == [fmt |-> "plain", plain |-> s, value |-> ObjResult(<<>>)]

\* what the try/catch around tool.handler(args) gives: an envelope, or the
\* exception passed on to the caller
Envelope(isError, text) ==
    [propagated |-> FALSE, isError |-> isError, text |-> text]

Propagated(msg) ==
    [propagated |-> TRUE, isError |-> FALSE, text |-> PlainText(msg)]

toolCallbackNoCatch(h) ==
    IF h.threw
    THEN Propagated(h.msg)
    ELSE Envelope(FALSE, JsonText(h.result))

\* main.js: the callback server.tool registers for a tool
toolCallback(h) ==
    IF h.threw
    THEN Envelope(TRUE, PlainText("Error: " \o h.msg))
    ELSE Envelope(FALSE, JsonText(h.result))

-----------------------------------------------------------------------------
(* Requests *)

StringParams == {"path", "out", "name", "stack", "key", "value"}

BoolParams ==
    {"autoApprove", "backend", "upgrade", "json", "check", "yes", "secret"}

\* the string a caller passes for a string parameter
Sample(p) ==
    CASE p = "path" -> "infra"
      [] p = "out" -> "plan.out"
      [] p = "name" -> "vpc_id"
      [] p = "stack" -> "dev"
      [] p = "key" -> "region"
      [] OTHER -> "eu"

\* the values a caller passes for parameter p: of the declared type, and of
\* another type
ArgValues(p) ==
    CASE p \in StringParams -> {JStr(Sample(p)), JNum(7)}
      [] p \in BoolParams -> {JBool(TRUE), JBool(FALSE), JStr("false")}
      [] OTHER -> {JObj("region=eu")}

\* the argument mappings over the parameters P: each parameter left out or
\* given one of its values
ArgSets(P) ==
    UNION { { f \in [D -> UNION { ArgValues(p) : p \in D }] :
                \A p \in D : f[p] \in ArgValues(p) } : D \in SUBSET P }

\* the tool names a caller of index.js asks for
RequestNames ==
    SeqToSet(TerraformJsTools) \cup {"terraform_version", "nosuch_tool"}

\* no handler was invoked
NoHandler == Returned(ObjResult(<<>>), None, <<>>)

NoResponse == [kind |-> "none"]

\* what a caller of adapter a's connect() observes: c is the Connection it
\* produced, detect the probe it ran (the binary found and the candidates
\* whose `version` was run), probe and out what the probed binaries did
ConnectResponse(a, probe, out, detect, c) ==
    [kind |-> "connect", adapter |-> a, probe |-> probe, out |-> out,
     detect |-> detect, c |-> c]

\* what a caller of adapter a's disconnect() observes
DisconnectResponse(a, c) == [kind |-> "disconnect", adapter |-> a, c |-> c]

ListResponse(tools) == [kind |-> "list", tools |-> tools]

\* owner: Some(adapter whose handler ran) or None; h: what the handler did
CallResponse(name, args, owner, h, envelope) ==
    [kind |-> "call", name |-> name, args |-> args, owner |-> owner,
     h |-> h, envelope |-> envelope]

\* index.js: the CallToolRequestSchema handler: the first adapter that has
\* the tool runs its handler inside try/catch; with no such adapter the
\* request is answered `Unknown tool`. bps holds each adapter's binaryPath.
callToolRequestUnknownIsNoError(as, name, args, bps, out) ==
    LET tool == findTool(as, name)
        h == Handler(tool[1], name, args, bps[tool[1]], out)
    IN  IF tool # None
        THEN CallResponse(name, args, tool, h, toolCallback(h))
        ELSE CallResponse(name, args, None, NoHandler,
                 Envelope(FALSE, PlainText("Unknown tool: " \o name)))

callToolRequest(as, name, args, bps, out) ==
    LET tool == findTool(as, name)
        h == Handler(tool[1], name, args, bps[tool[1]], out)
    IN  IF tool # None
        THEN IF h.threw
             THEN CallResponse(name, args, tool, h,
                      Envelope(TRUE, PlainText("Error: " \o h.msg)))
             ELSE CallResponse(name, args, tool, h,
                      Envelope(FALSE, JsonText(h.result)))
        ELSE CallResponse(name, args, None, NoHandler,
                 Envelope(TRUE, PlainText("Unknown tool: " \o name)))

-----------------------------------------------------------------------------
(* The state machine *)

Init ==
    /\ entry \in {"index", "main"}
    /\ adapters \in (IF entry = "main" THEN Configs(MainAdapters)
                                       ELSE Configs(IndexAdapters))
    /\ pc = "start"
    /\ idx = 1
    /\ binaryPath = [a \in AdapterIds |-> None]
    /\ connected = [a \in AdapterIds |-> FALSE]
    /\ connectedAdapters = <<>>
    /\ allTools = <<>>
    /\ log = <<>>
    /\ response = NoResponse

\* adapter a's connect() with the probe outcomes given
ConnectOf(a, probe, out) ==
    CASE a = "Terraform" -> connect(binaryPath[a], connected[a], probe)
      [] a = "Pulumi" -> pulumiConnect(binaryPath[a], connected[a], out)
      [] OTHER -> connectJs(binaryPath[a], connected[a], probe)

\* the probe adapter a's connect() runs: detectBinary for the Terraform
\* adapters, the single `pulumi version` for Pulumi
DetectOf(a, probe, out) ==
    CASE a = "Terraform" -> detectBinary(probe)
      [] a = "Pulumi" ->
           [binary |-> IF ~out.thrown /\ out.code = 0 THEN Some("pulumi")
                       ELSE None,
            probed |-> <<"pulumi">>]
      [] OTHER -> detectBinaryJs(probe)

DisconnectOf(a) ==
    CASE a = "Pulumi" -> pulumiDisconnect(binaryPath[a], connected[a])
      [] OTHER -> disconnect(binaryPath[a], connected[a])

\* main.js: one turn of `for (const adapter of adapters) { try { await
\* adapter.connect(); ... } catch (err) { console.error(...) } }`
MainConnectAdapter ==
    /\ entry = "main" /\ pc = "start" /\ idx <= Len(adapters)
    /\ \E probe \in ProbeOutcomes, out \in ProcOutcomes :
         LET a == adapters[idx]
             c == ConnectOf(a, probe, out)
         IN  /\ binaryPath' = [binaryPath EXCEPT ![a] = c.binaryPath]
             /\ connected' = [connected EXCEPT ![a] = c.connected]
             /\ IF c.threw
                THEN /\ log' = Append(log, <<"Failed to connect", AdapterName(a), c.msg>>)
                     /\ UNCHANGED <<connectedAdapters, allTools>>
                ELSE /\ connectedAdapters' = Append(connectedAdapters, a)
                     /\ allTools' = setTools(allTools, ToolsOf(a))
                     /\ UNCHANGED log
    /\ idx' = idx + 1
    /\ UNCHANGED <<entry, adapters, pc, response>>

\* the transport connected without waiting for the loop over the adapters
MainStartServerEarly ==
    /\ entry = "main" /\ pc = "start"
    /\ pc' = "serving"
    /\ UNCHANGED <<entry, adapters, idx, binaryPath, connected,
                   connectedAdapters, allTools, log, response>>

\* main.js: the tools are registered with the server and the transport is
\* connected
MainStartServer ==
    /\ entry = "main" /\ pc = "start" /\ idx > Len(adapters)
    /\ pc' = "serving"
    /\ UNCHANGED <<entry, adapters, idx, binaryPath, connected,
                   connectedAdapters, allTools, log, response>>

\* index.js: the module body collects allTools and main() connects the
\* transport; no adapter is connected
IndexStartServer ==
    /\ entry = "index" /\ pc = "start"
    /\ allTools' = flatMapTools(adapters)
    /\ pc' = "serving"
    /\ UNCHANGED <<entry, adapters, idx, binaryPath, connected,
                   connectedAdapters, log, response>>

Idle == pc = "serving" /\ response.kind = "none"

\* tools/list: index.js maps allTools; main.js lists what server.tool registered
ListTools ==
    /\ Idle
    /\ response' = ListResponse(allTools)
    /\ UNCHANGED <<entry, adapters, pc, idx, binaryPath, connected,
                   connectedAdapters, allTools, log>>

\* index.js: a tools/call request
IndexCallTool ==
    /\ Idle /\ entry = "index"
    /\ \E name \in RequestNames, out \in ProcOutcomes :
         LET tool == findTool(adapters, name)
         IN  \E args \in (IF tool = None THEN {<<>>}
                          ELSE ArgSets(ToolParams(tool[1], name))) :
               LET r == callToolRequest(adapters, name, args, binaryPath, out)
               IN  /\ response' = r
                   /\ pc' = IF r.envelope.propagated THEN "crashed" ELSE pc
    /\ UNCHANGED <<entry, adapters, idx, binaryPath, connected,
                   connectedAdapters, allTools, log>>

\* a callback that marks the adapter disconnected when its handler throws
MainCallToolMarksFailed ==
    /\ Idle /\ entry = "main"
    /\ \E i \in 1..Len(allTools), out \in ProcOutcomes :
         LET name == allTools[i].name
             a == allTools[i].owner
         IN  \E args \in ArgSets(ToolParams(a, name)) :
               LET h == Handler(a, name, args, binaryPath[a], out)
                   e == toolCallback(h)
               IN  /\ response' = CallResponse(name, args, Some(a), h, e)
                   /\ pc' = IF e.propagated THEN "crashed" ELSE pc
                   /\ connected' = [connected EXCEPT
                                      ![a] = IF h.threw THEN FALSE ELSE @]
    /\ UNCHANGED <<entry, adapters, idx, binaryPath,
                   connectedAdapters, allTools, log>>

\* main.js: a tools/call request for a registered tool runs its callback
MainCallTool ==
    /\ Idle /\ entry = "main"
    /\ \E i \in 1..Len(allTools), out \in ProcOutcomes :
         LET name == allTools[i].name
             a == allTools[i].owner
         IN  \E args \in ArgSets(ToolParams(a, name)) :
               LET h == Handler(a, name, args, binaryPath[a], out)
                   e == toolCallback(h)
               IN  /\ response' = CallResponse(name, args, Some(a), h, e)
                   /\ pc' = IF e.propagated THEN "crashed" ELSE pc
    /\ UNCHANGED <<entry, adapters, idx, binaryPath, connected,
                   connectedAdapters, allTools, log>>

\* the transport writes the response, or the lifecycle call returns to its
\* caller
Reply ==
    /\ pc = "serving" /\ response.kind # "none"
    /\ response' = NoResponse
    /\ UNCHANGED <<entry, adapters, pc, idx, binaryPath, connected,
                   connectedAdapters, allTools, log>>

\* a caller of the adapter's exported connect()
Connect ==
    /\ Idle
    /\ \E i \in 1..Len(adapters), probe \in ProbeOutcomes, out \in ProcOutcomes :
         LET a == adapters[i]
             c == ConnectOf(a, probe, out)
         IN  /\ binaryPath' = [binaryPath EXCEPT ![a] = c.binaryPath]
             /\ connected' = [connected EXCEPT ![a] = c.connected]
             /\ response' = ConnectResponse(a, probe, out,
                                             DetectOf(a, probe, out), c)
    /\ UNCHANGED <<entry, adapters, pc, idx, connectedAdapters, allTools, log>>

\* a caller of the adapter's exported disconnect()
Disconnect ==
    /\ Idle
    /\ \E i \in 1..Len(adapters) :
         LET a == adapters[i]
             c == DisconnectOf(a)
         IN  /\ binaryPath' = [binaryPath EXCEPT ![a] = c.binaryPath]
             /\ connected' = [connected EXCEPT ![a] = c.connected]
             /\ response' = DisconnectResponse(a, c)
    /\ UNCHANGED <<entry, adapters, pc, idx, connectedAdapters, allTools, log>>

Next ==
    \/ MainConnectAdapter
    \/ MainStartServer
    \/ IndexStartServer
    \/ ListTools
    \/ IndexCallTool
    \/ MainCallTool
    \/ Reply
    \/ Connect
    \/ Disconnect

Spec == Init /\ [][Next]_vars

-----------------------------------------------------------------------------
(* The declared schemas *)

\* inputSchema.required of a tool: terraform.js lists it; the ReScript tool
\* definitions carry none, and main.js builds inputSchema without one
ToolRequired(a, tool) ==
    IF a \in IndexAdapters THEN TerraformJsRequired(tool) ELSE {}

\* the declared type of a parameter: stringParam / boolParam in the ReScript
\* adapters, inputSchema.properties[p].type in terraform.js
DeclaredType(p) ==
    CASE p \in StringParams -> "string"
      [] p \in BoolParams -> "boolean"
      [] OTHER -> "object"

-----------------------------------------------------------------------------
(* Claims *)

IsCall == pc # "start" /\ response.kind = "call"

\* the invocations of the Process Runner the answered call made
Invocations == response.h.calls

\* the process the answered call ran exited with a non-zero code
ProcessFailed ==
    /\ Invocations # <<>>
    /\ ~Invocations[1].out.thrown
    /\ Invocations[1].out.code # 0

OwnersOf(table) == { table[i].owner : i \in 1..Len(table) }

\* C1: at every point of main.js's startup loop, each adapter already visited
\* whose connect() failed has no tool in the merged table and each one whose
\* connect() succeeded has all of its tools there, each visited adapter being
\* either connected or logged; the startup ends serving, never aborted, and
\* then the table holds exactly the tools of the adapters that connected.
C1_StartupResilient ==
    entry = "main" =>
      /\ pc = "start" =>
           /\ \A i \in 1..(idx - 1) :
                IF connected[adapters[i]]
                THEN SeqToSet(ToolsOf(adapters[i])) \subseteq SeqToSet(allTools)
                ELSE adapters[i] \notin OwnersOf(allTools)
           /\ Len(connectedAdapters) + Len(log) = idx - 1
      /\ pc # "start" =>
           /\ pc = "serving"
           /\ SeqToSet(allTools) =
                UNION { SeqToSet(ToolsOf(a)) : a \in SeqToSet(connectedAdapters) }
           /\ Len(connectedAdapters) + Len(log) = Len(adapters)

\* C1 witness: the server serves with one adapter failed and one connected
C1_Witness ==
    /\ entry = "main" /\ pc = "serving"
    /\ Len(adapters) = 2 /\ Len(log) = 1 /\ Len(connectedAdapters) = 1
    /\ allTools # <<>>

\* C2: a call of index.js whose tool name no adapter has is answered with
\* isError = true and the text `Unknown tool: <name>`, with no handler invoked
\* and no process invoked, and the server goes on serving.
C2_UnknownTool ==
    (IsCall /\ entry = "index"
       /\ \A i \in 1..Len(adapters) :
            response.name \notin SeqToSet(AdapterTools(adapters[i])))
    => /\ response.envelope.isError
       /\ ~response.envelope.propagated
       /\ response.envelope.text = PlainText("Unknown tool: " \o response.name)
       /\ response.owner = None
       /\ Invocations = <<>>
       /\ pc = "serving"

\* C2 witness: an unknown name was asked of a server that has adapters
C2_Witness ==
    /\ IsCall /\ entry = "index" /\ adapters # <<>>
    /\ response.name = "terraform_version"
    /\ response.envelope.isError

\* C3: when the process a handler ran exits with a non-zero code, the envelope
\* is not marked isError and its text is the JSON of a result whose success
\* is false and whose error is the process's stderr.
C3_ProcessFailureIsData ==
    (IsCall /\ ProcessFailed)
    => /\ ~response.envelope.isError
       /\ ~response.envelope.propagated
       /\ response.envelope.text.fmt = "json"
       /\ response.envelope.text.value.raw = ""
       /\ HasField(response.envelope.text.value.fields, "success")
       /\ Field(response.envelope.text.value.fields, "success") = JBool(FALSE)
       /\ HasField(response.envelope.text.value.fields, "error")
       /\ Field(response.envelope.text.value.fields, "error")
            = JStr(Invocations[1].out.stderr)

\* C3 witness: a Pulumi handler's process exited 1 with "no such stack"
C3_Witness ==
    /\ IsCall /\ ProcessFailed
    /\ response.owner = Some("Pulumi")
    /\ Invocations[1].out.stderr = "no such stack"

\* C4: an exception a handler raises during dispatch becomes an envelope with
\* isError = true whose text carries the exception's message; it does not
\* leave the dispatch, and the server goes on serving.
C4_HandlerFaultContained ==
    (IsCall /\ response.h.threw)
    => /\ response.envelope.isError
       /\ ~response.envelope.propagated
       /\ response.envelope.text = PlainText("Error: " \o response.h.msg)
       /\ pc = "serving"

\* C4 witness: a handler of main.js threw
C4_Witness ==
    /\ IsCall /\ entry = "main" /\ response.h.threw
    /\ response.h.msg = "key parameter is required"

\* the adapter whose handler the answered call ran
Owner == response.owner[1]

\* C5: a call that leaves out a parameter its tool declares required is
\* answered with an error envelope and invokes no process.
C5_MissingRequiredRejected ==
    (IsCall /\ response.owner # None
       /\ ToolRequired(Owner, response.name) \ DOMAIN response.args # {})
    => /\ response.envelope.isError
       /\ Invocations = <<>>

\* C6: a call that gives a parameter a value of another type than the declared
\* one is answered with an error envelope and invokes no process.
C6_WrongTypeRejected ==
    (IsCall /\ response.owner # None
       /\ \E p \in DOMAIN response.args :
            response.args[p].t # DeclaredType(p))
    => /\ response.envelope.isError
       /\ Invocations = <<>>

\* the answered call failed with the not-connected error, thrown or returned
FailedNotConnected ==
    \/ response.h.threw /\ response.h.msg = NotConnectedMessage
    \/ /\ ~response.h.threw
       /\ HasField(response.h.result.fields, "error")
       /\ Field(response.h.result.fields, "error") = JStr(NotConnectedMessage)
       /\ Field(response.h.result.fields, "success") = JBool(FALSE)

\* C7: a handler invoked while its adapter is not connected fails with the
\* not-connected error and invokes no process.
C7_NotConnectedRefused ==
    (IsCall /\ response.owner # None /\ ~connected[Owner])
    => /\ Invocations = <<>>
       /\ FailedNotConnected

\* C8: a tool listing holds only tools whose owning adapter is connected.
C8_ListOnlyConnected ==
    (pc = "serving" /\ response.kind = "list")
    => \A i \in 1..Len(response.tools) : connected[response.tools[i].owner]

\* how many times token occurs in the argument vector
Count(argv, token) == Cardinality({ i \in 1..Len(argv) : argv[i] = token })

\* C9: terraform_apply and terraform_destroy, given autoApprove true, build
\* a vector holding -auto-approve exactly once and nothing else beside the
\* subcommand and the path: [subcommand, "-auto-approve", path]; given
\* autoApprove false or left out, they build [subcommand, path]. The process,
\* when one is run, gets that vector.
C9_AutoApproveVector ==
    (IsCall /\ response.owner # None
       /\ response.name \in {"terraform_apply", "terraform_destroy"}
       /\ ("autoApprove" \in DOMAIN response.args
             => response.args["autoApprove"].t = "boolean"))
    => LET sub == IF response.name = "terraform_apply" THEN "apply"
                  ELSE "destroy"
           approve == /\ "autoApprove" \in DOMAIN response.args
                      /\ response.args["autoApprove"] = JBool(TRUE)
           argv == response.h.cmdArgs[1]
       IN  /\ response.h.cmdArgs # None
           /\ argv[1] = JStr(sub)
           /\ Count(argv, JStr("-auto-approve")) = (IF approve THEN 1 ELSE 0)
           /\ Len(argv) = (IF approve THEN 3 ELSE 2)
           /\ approve => argv[2] = JStr("-auto-approve")
           /\ ("path" \in DOMAIN response.args
                 /\ response.args["path"].t = "string")
                => argv[Len(argv)] = response.args["path"]
           /\ Invocations # <<>> => Invocations[1].args = argv

\* C9 witness: terraform_destroy ran a process with autoApprove true
C9_Witness ==
    /\ IsCall /\ response.name = "terraform_destroy"
    /\ Invocations # <<>>
    /\ Invocations[1].args =
         <<JStr("destroy"), JStr("-auto-approve"), JStr("infra")>>

\* the adapters configured at places i < j are both connected and both have
\* a tool named n
Collision(i, j, n) ==
    /\ i < j
    /\ connected[adapters[i]] /\ connected[adapters[j]]
    /\ n \in SeqToSet(AdapterTools(adapters[i]))
    /\ n \in SeqToSet(AdapterTools(adapters[j]))

\* C10: when two connected adapters both have a tool of one name, the tool
\* table holds exactly one entry of that name and a call of that name runs
\* the handler of the adapter registered last.
C10_LaterOverrides ==
    pc = "serving" =>
      \A i, j \in 1..Len(adapters) :
        \A n \in SeqToSet(AdapterTools(adapters[i])) :
          (Collision(i, j, n) /\ j = Len(adapters))
          => /\ Cardinality({ k \in 1..Len(allTools) : allTools[k].name = n }) = 1
             /\ (response.kind = "call" /\ response.name = n)
                  => response.owner = Some(adapters[j])

\* C11: every handler that returns, whatever its process did, returns an
\* object of the normalized shape: a boolean success and the texts output and
\* error.
C11_NormalizedResult ==
    (IsCall /\ response.owner # None /\ ~response.h.threw)
    => /\ response.h.result.raw = ""
       /\ HasField(response.h.result.fields, "success")
       /\ Field(response.h.result.fields, "success").t = "boolean"
       /\ HasField(response.h.result.fields, "output")
       /\ Field(response.h.result.fields, "output").t = "string"
       /\ HasField(response.h.result.fields, "error")
       /\ Field(response.h.result.fields, "error").t = "string"

\* the adapter a lifecycle call was made on
Called == response.adapter

\* C12: after connect(), from any prior state: if the probe found a binary the
\* adapter records it and is connected; if it found none, connect() reports
\* the failure and the adapter is not connected, also when it was connected
\* before the call.
C12_ConnectSetsState ==
    (response.kind = "connect")
    => IF response.detect.binary # None
       THEN /\ connected[Called]
            /\ Called # "Pulumi" => binaryPath[Called] = response.detect.binary
       ELSE /\ response.c.threw \/ response.c.msg # ""
            /\ ~connected[Called]

\* C13: disconnect(), whatever the adapter's state was, leaves the adapter
\* with no resolved binary and not connected; and while an adapter is in that
\* state (no connect() has succeeded since) its handlers run no process.
C13_DisconnectClears ==
    /\ (response.kind = "disconnect")
       => /\ binaryPath[Called] = None
          /\ ~connected[Called]
    /\ (IsCall /\ response.owner # None
          /\ ~connected[Owner] /\ binaryPath[Owner] = None)
       => Invocations = <<>>

\* the adapters that probe for a Terraform/OpenTofu binary
TerraformAdapters == {"Terraform", "terraformAdapter", "opentofuAdapter"}

\* C14: detectBinary tries tofu, then terraform, and returns the first whose
\* `version` exits 0 (a spawn exception or a non-zero exit means the next one
\* is tried); it returns none exactly when neither exits 0; tofu is chosen
\* whenever it responds, and nothing is probed after the first success.
C14_DetectOrder ==
    (response.kind = "connect" /\ Called \in TerraformAdapters)
    => LET probe == response.probe
           detect == response.detect
       IN  /\ probe["tofu"] = "ok"
              => detect = [binary |-> Some("tofu"), probed |-> <<"tofu">>]
           /\ (probe["tofu"] # "ok" /\ probe["terraform"] = "ok")
              => detect = [binary |-> Some("terraform"),
                           probed |-> <<"tofu", "terraform">>]
           /\ (probe["tofu"] # "ok" /\ probe["terraform"] # "ok")
              => detect = [binary |-> None,
                           probed |-> <<"tofu", "terraform">>]
           /\ detect.binary = None
              <=> \A b \in {"tofu", "terraform"} : probe[b] # "ok"
           /\ detect.binary # None => binaryPath[Called] = detect.binary

\* tofu responds and so does terraform: the ReScript adapter settles on tofu
\* without probing terraform
C14_Witness ==
    /\ response.kind = "connect" /\ Called = "Terraform"
    /\ response.probe["tofu"] = "ok" /\ response.probe["terraform"] = "ok"
    /\ response.detect.probed = <<"tofu">>
    /\ binaryPath["Terraform"] = Some("tofu")

\* C19: for every Terraform adapter, after any sequence of connect() and
\* disconnect() calls, connected is true if and only if a resolved binary is
\* recorded.
C19_ConnectedIffBinary ==
    \A a \in TerraformAdapters : connected[a] <=> binaryPath[a] # None

\* a request is being answered, or the transport accepts requests
Exposed == pc # "start" \/ response.kind \in {"list", "call"}

\* the adapters whose connect() has settled: connected or logged as failed
Settled == Len(connectedAdapters) + Len(log)

\* C15: whenever main.js's transport is started or a listing or call is
\* answered, the connect() of every configured adapter has settled and the
\* table is the complete one: a listing shows exactly the tools of all the
\* adapters that connected, and a call is answered by one of them.
C15_NoPartialTable ==
    (entry = "main" /\ Exposed)
    => /\ idx = Len(adapters) + 1
       /\ Settled = Len(adapters)
       /\ SeqToSet(allTools) =
            UNION { SeqToSet(ToolsOf(a)) : a \in SeqToSet(connectedAdapters) }
       /\ response.kind = "list" => response.tools = allTools
       /\ (response.kind = "call" /\ response.owner # None)
          => Owner \in SeqToSet(connectedAdapters)

\* two adapters configured, one failed and one connected: the listing shows
\* the connected one's tools
C15_Witness ==
    /\ entry = "main" /\ response.kind = "list"
    /\ Len(adapters) = 2 /\ Len(log) = 1 /\ Len(connectedAdapters) = 1
    /\ response.tools = ToolsOf(connectedAdapters[1])

\* a step that dispatches a tools/call request
Dispatch == response.kind = "none" /\ response'.kind = "call"

Argv == SeqToSet(response.h.cmdArgs[1])

\* the bare flags and the boolean parameter each stands for
Flags ==
    { <<"upgrade", "-upgrade">>, <<"check", "-check">>, <<"yes", "--yes">>,
      <<"secret", "--secret">> }

\* the tokens `<prefix><value>` of the values a caller may pass for p
ValueTokens(p, prefix) == { JStr(prefix \o x.v) : x \in ArgValues(p) }

\* the tools whose `stack` is the optional --stack=<name>
StackOptional ==
    {"pulumi_preview", "pulumi_up", "pulumi_destroy", "pulumi_stack_output",
     "pulumi_refresh"}

\* C17: in the argument vector a handler builds, a bare flag (-upgrade,
\* -check, --yes, --secret) appears iff its boolean is true, -out=<file> and
\* --stack=<name> appear iff the parameter was supplied, and an omitted
\* optional path adds no path and no --cwd token.
C17_OptionalTokens ==
    (IsCall /\ response.owner # None /\ response.h.cmdArgs # None)
    => LET args == response.args
           params == ToolParams(Owner, response.name)
       IN  /\ \A f \in Flags :
                f[1] \in params
                => (JStr(f[2]) \in Argv
                      <=> f[1] \in DOMAIN args /\ args[f[1]] = JBool(TRUE))
           /\ "out" \in params
              => (Argv \cap ValueTokens("out", "-out=") # {}
                    <=> "out" \in DOMAIN args)
           /\ response.name \in StackOptional
              => (Argv \cap ValueTokens("stack", "--stack=") # {}
                    <=> "stack" \in DOMAIN args)
           /\ ("path" \in params \ ToolRequired(Owner, response.name)
                 /\ "path" \notin DOMAIN args)
              => /\ JStr("--cwd") \notin Argv
                 /\ JStr(".") \notin Argv

\* the value-bearing parameters a Pulumi handler insists on, in the order it
\* reads them
Needed(tool) ==
    CASE tool = "pulumi_config_set" -> <<"key", "value">>
      [] tool = "pulumi_config_get" -> <<"key">>
      [] tool \in {"pulumi_stack_select", "pulumi_stack_init"} -> <<"stack">>
      [] OTHER -> <<>>

\* parameter p was passed as a string
Given(p) == p \in DOMAIN response.args /\ response.args[p].t = "string"

\* C18: a call of pulumi_config_set, pulumi_config_get, pulumi_stack_select
\* or pulumi_stack_init in which a needed parameter (key, value, stack) is
\* absent or not a string fails with `<parameter> parameter is required` for
\* the first such parameter, builds no argument vector and runs no process;
\* when all are given, the vector carries exactly the values given.
C18_RequiredValueParams ==
    (IsCall /\ response.owner = Some("Pulumi") /\ Needed(response.name) # <<>>)
    => LET needed == Needed(response.name)
           missing == { i \in 1..Len(needed) : ~Given(needed[i]) }
           first == CHOOSE i \in missing : \A j \in missing : i <= j
       IN  IF missing # {}
           THEN /\ response.h.threw
                /\ response.h.msg = needed[first] \o " parameter is required"
                /\ response.h.cmdArgs = None
                /\ Invocations = <<>>
                /\ response.envelope.isError
                /\ response.envelope.text =
                     PlainText("Error: " \o response.h.msg)
           ELSE /\ response.h.cmdArgs # None
                /\ \A i \in 1..Len(needed) :
                     response.h.cmdArgs[1][2 + i] = response.args[needed[i]]
                /\ Len(Invocations) = 1

\* pulumi_config_set with a key and no value
C18_Witness ==
    /\ IsCall /\ response.name = "pulumi_config_set"
    /\ Given("key") /\ "value" \notin DOMAIN response.args
    /\ response.h.msg = "value parameter is required"
    /\ Invocations = <<>>

====
